---- MODULE Spec2Model ----
(***************************************************************************)
(* Model of scrape_ngg_images (ngg_scraper.py): the crawl over a list of   *)
(* exported posts that fetches each post's page, locates NextGEN Gallery   *)
(* images, and downloads those not yet present in the post's directory.    *)
(*                                                                         *)
(* A URL is a sequence of tokens, each token standing for a substring      *)
(* ("https:", "/", a host, a path word, an extension); the string          *)
(* operations of the code (startswith, in, replace, urljoin, urlparse,     *)
(* basename) are computed on these sequences.                              *)
(***************************************************************************)
EXTENDS Integers, Sequences, FiniteSets, TLC

VARIABLES posts, run, i, pc, page, images_to_download, todo, dirs, files,
          total_downloaded, status, trace, pageSite, imgSite, tree

vars == <<posts, run, i, pc, page, images_to_download, todo, dirs, files,
          total_downloaded, status, trace, pageSite, imgSite, tree>>

\* Longest input list of posts.
MaxPosts == 2

----------------------------------------------------------------------------
(* String helpers on token sequences *)

Range(s) == {s[k] : k \in 1..Len(s)}

\* str.startswith
StartsWith(s, p) == Len(s) >= Len(p) /\ SubSeq(s, 1, Len(p)) = p

\* the `in` operator on strings
Contains(s, p) ==
    \E k \in 1..(Len(s) - Len(p) + 1) : SubSeq(s, k, k + Len(p) - 1) = p

\* str.replace: non-overlapping occurrences, left to right
RECURSIVE Replace(_, _, _)
Replace(s, old, new) ==
    IF Len(s) < Len(old) THEN s
    ELSE IF SubSeq(s, 1, Len(old)) = old
         THEN new \o Replace(SubSeq(s, Len(old) + 1, Len(s)), old, new)
         ELSE <<Head(s)>> \o Replace(Tail(s), old, new)

\* the longest prefix of s holding no token of stop
RECURSIVE TakeUntil(_, _)
TakeUntil(s, stop) ==
    IF s = <<>> \/ Head(s) \in stop THEN <<>>
    ELSE <<Head(s)>> \o TakeUntil(Tail(s), stop)

----------------------------------------------------------------------------
(* urllib.parse and os.path, as far as the crawl uses them *)

Schemes == {"https:", "http:"}

HasScheme(u) == Len(u) > 0 /\ u[1] \in Schemes

AfterScheme(u) == IF HasScheme(u) THEN Tail(u) ELSE u

HasNetloc(u) == StartsWith(AfterScheme(u), <<"/", "/">>)

Netloc(u) ==
    IF HasNetloc(u)
    THEN TakeUntil(SubSeq(AfterScheme(u), 3, Len(AfterScheme(u))), {"/", "?", "#"})
    ELSE <<>>

\* urlparse raises ValueError("Invalid IPv6 URL") on an unbalanced bracket
\* in the network location
UrlParseRaises(u) == ("[" \in Range(Netloc(u))) # ("]" \in Range(Netloc(u)))

\* urlparse(u).path
UrlPath(u) ==
    LET r == AfterScheme(u)
        afterNetloc == IF HasNetloc(u)
                       THEN SubSeq(r, 3 + Len(Netloc(u)), Len(r))
                       ELSE r
    IN  TakeUntil(afterNetloc, {"?", "#"})

\* os.path.basename: what follows the last "/"
RECURSIVE Basename(_)
Basename(p) ==
    IF p = <<>> \/ p[Len(p)] = "/" THEN <<>>
    ELSE Basename(SubSeq(p, 1, Len(p) - 1)) \o <<p[Len(p)]>>

\* urljoin(base, u) for a root-relative u: scheme and host of base, then u
UrlJoin(base, u) ==
    (IF HasScheme(base) THEN <<base[1]>> ELSE <<>>)
    \o (IF HasNetloc(base) THEN <<"/", "/">> \o Netloc(base) ELSE <<>>)
    \o u

ImageExts == {".jpg", ".jpeg", ".png", ".gif", ".webp", ".JPG"}

\* is_image_url: the URL ends in an image extension, case-insensitively
is_image_url(url) == Len(url) > 0 /\ url[Len(url)] \in ImageExts

----------------------------------------------------------------------------
(* Inputs: the posts of posts.json and the remote site *)

Host == <<"https:", "/", "/", "h">>

Gallery(album) == <<"/", "wp-content", "/", "gallery", "/", album>>

Link1 == Host \o <<"/", "p1">>
Link2 == Host \o <<"/", "p2">>

UrlFull   == Host \o Gallery("al") \o <<"/", "a", ".jpg">>
UrlThumb  == Host \o Gallery("al") \o <<"/", "thumbs", "/", "thumbs_", "a", ".jpg">>
UrlProto  == <<"/", "/", "h">> \o Gallery("al") \o <<"/", "a", ".jpg">>
UrlRoot   == Gallery("al") \o <<"/", "a", ".jpg">>
UrlOther  == Host \o Gallery("bl") \o <<"/", "a", ".jpg">>
UrlUpload == Host \o <<"/", "up", "/", "b", ".png">>
UrlBad    == <<"/", "/", "[", "h">> \o Gallery("al") \o <<"/", "c", ".jpg">>
UrlDir    == Host \o Gallery("al") \o <<"/">>

\* An <a> or <img> element: ngg says whether the selector
\* ".ngg-gallery-thumbnail a, .ngg-fancybox" matches it; an attribute the
\* element lacks is the empty sequence.
Tag(n, h, s) == [ngg |-> n, href |-> h, src |-> s]

NggA(u) == Tag(TRUE, u, <<>>)
A(u)    == Tag(FALSE, u, <<>>)
Img(u)  == Tag(FALSE, <<>>, u)

\* The pages the site may serve.
Markups ==
    { {A(UrlUpload)},                  \* no gallery image at all
      {NggA(UrlUpload), Img(UrlFull)}, \* one widget image, one path-pattern image
      {NggA(UrlFull), NggA(UrlThumb)}, \* an image and its thumbnail
      {A(UrlProto), Img(UrlFull)},     \* protocol-relative and absolute form
      {Img(UrlFull), Img(UrlOther)},   \* two albums, same file name
      {Img(UrlBad), Img(UrlFull)},     \* a URL urlparse rejects
      {Img(UrlRoot), A(UrlDir)} }      \* root-relative; path ending in "/"

PageKinds == {"ok", "status", "neterr"}

\* ok: status 200 and the body streamed to the file; status: another status
\* code; neterr: session.get raises; ioerr: status 200, the file is opened
\* and an error is raised while the body is streamed into it
ImgKinds == {"ok", "status", "neterr", "ioerr"}

Post(k, l, t, s, n) == [keys |-> k, link |-> l, title |-> t, slug |-> s, id |-> n]

\* Record shapes of posts.json: title an object or a plain string, and any
\* of the keys absent.
PostPool ==
    { Post({"id", "title", "slug", "link"}, Link1, "obj", "s", 7),
      Post({"id", "title", "link"},         Link2, "obj", "s", 7),
      Post({"link"},                        Link2, "obj", "s", 7),
      Post({"id", "title", "slug", "link"}, Link1, "str", "s", 7),
      Post({"id", "title", "slug"},         <<>>,  "obj", "s", 7),
      Post({"id", "title", "slug"},         <<>>,  "str", "s", 7),
      Post({"id", "slug", "link"},          <<>>,  "obj", "s", 7) }

RECURSIVE SeqsUpTo(_, _)
SeqsUpTo(S, n) ==
    IF n = 0 THEN {<<>>}
    ELSE LET shorter == SeqsUpTo(S, n - 1)
         IN  shorter \cup {Append(q, x) : q \in shorter, x \in S}

----------------------------------------------------------------------------
(* Reading a post: lines 32-34 *)

\* post.get("link"): None and "" are both the empty sequence
LinkOf(post) == IF "link" \in post.keys THEN post.link ELSE <<>>

\* post.get("title", {}).get("rendered", "untitled") raises AttributeError
\* when the title is a plain string
TitleRaises(post) == "title" \in post.keys /\ post.title = "str"

Digits == <<"0", "1", "2", "3", "4", "5", "6", "7", "8", "9">>

\* str(post.get("id"))
StrId(post) == IF "id" \in post.keys THEN Digits[post.id + 1] ELSE "None"

\* post.get("slug", str(post.get("id")))
SlugOf(post) == IF "slug" \in post.keys THEN post.slug ELSE StrId(post)

----------------------------------------------------------------------------
(* Locating images: lines 53-78 *)

GalleryPath == <<"/", "wp-content", "/", "gallery", "/">>
ThumbsDir == <<"/", "thumbs", "/">>
ThumbsPrefix == <<"/", "thumbs", "/", "thumbs_">>

\* Strategy 1: hrefs of the NGG containers that are image URLs
Strategy1(markup) ==
    {t.href : t \in {x \in markup : x.ngg /\ x.href # <<>> /\ is_image_url(x.href)}}

\* tag.get("href") or tag.get("src")
TagUrl(t) == IF t.href # <<>> THEN t.href ELSE t.src

\* the guessed full-size URL of a thumbnail
FullUrl(url) == Replace(Replace(url, ThumbsPrefix, <<"/">>), ThumbsDir, <<"/">>)

\* Strategy 2: every href/src under /wp-content/gallery/, thumbnails rewritten
Strategy2(markup) ==
    {IF Contains(TagUrl(t), ThumbsDir) THEN FullUrl(TagUrl(t)) ELSE TagUrl(t) :
        t \in {x \in markup : TagUrl(x) # <<>> /\ Contains(TagUrl(x), GalleryPath)}}

Locate(markup) == Strategy1(markup) \cup Strategy2(markup)

----------------------------------------------------------------------------
(* Downloading one image: lines 92-102 *)

\* Resolve with the two tests in the other order
Resolve_RootFirst(link, img_url) ==
    IF StartsWith(img_url, <<"/">>) THEN UrlJoin(link, img_url)
    ELSE IF StartsWith(img_url, <<"/", "/">>) THEN <<"https:">> \o img_url
    ELSE img_url

\* lines 92-95
Resolve(link, img_url) ==
    IF StartsWith(img_url, <<"/", "/">>) THEN <<"https:">> \o img_url
    ELSE IF StartsWith(img_url, <<"/">>) THEN UrlJoin(link, img_url)
    ELSE img_url

\* line 97
Filename(img_url) == Basename(UrlPath(img_url))

\* Exists without the look at the files of the directory
Exists_DirOnly(dir, filename) == filename = <<>> /\ dir \in dirs

\* os.path.exists(os.path.join(post_media_dir, filename)): an empty file
\* name makes the path the directory itself
Exists(dir, filename) ==
    \/ filename = <<>> /\ dir \in dirs
    \/ \E f \in files : f.dir = dir /\ f.name = filename

----------------------------------------------------------------------------
(* State *)

\* What the crawl did, in order: the requests it issued, the files it wrote,
\* the lines it printed, its sleeps.  "record" marks the start of an
\* iteration of the loop over posts, "outcome" the end of an iteration of
\* the loop over images.
Event(e, u, w) == [ev |-> e, run |-> run, post |-> i, url |-> u, what |-> w]

\* The answer of the remote site for a URL: what the site answered before,
\* or any answer when the URL is requested for the first time.
PageAnswers(url) ==
    IF \E a \in pageSite : a.url = url
    THEN {a \in pageSite : a.url = url}
    ELSE {[url |-> url, kind |-> "ok", markup |-> m] : m \in Markups}
         \cup {[url |-> url, kind |-> k, markup |-> {}] : k \in PageKinds \ {"ok"}}

ImgAnswers(url) ==
    IF \E a \in imgSite : a.url = url
    THEN {a \in imgSite : a.url = url}
    ELSE {[url |-> url, kind |-> k] : k \in ImgKinds}

SetStatus(s) == [status EXCEPT ![i] = s]

\* Report.py is not running: tree_categories has no call in progress
TreeIdle == [cats |-> <<>>, pc |-> "idle", arg |-> 0, stack |-> <<>>, out |-> <<>>]

\* lines 13-29
Init ==
    /\ tree = TreeIdle
    /\ posts \in SeqsUpTo(PostPool, MaxPosts)
    /\ run = 1
    /\ i = 1
    /\ pc = "post"
    /\ page = {}
    /\ images_to_download = {}
    /\ todo = {}
    /\ dirs = {}
    /\ files = {}
    /\ total_downloaded = 0
    /\ status = [k \in 1..Len(posts) |-> "Pending"]
    /\ trace = <<>>
    /\ pageSite = {}
    /\ imgSite = {}

----------------------------------------------------------------------------
(* Steps of scrape_ngg_images *)

\* lines 31-39: the next post of the list.  The AttributeError of line 33 is
\* outside every try and ends scrape_ngg_images.
StartPost ==
    /\ pc = "post"
    /\ i <= Len(posts)
    /\ IF TitleRaises(posts[i])
       THEN /\ pc' = "aborted"
            /\ trace' = Append(trace, Event("record", <<>>, "raise"))
            /\ UNCHANGED <<i, status>>
       ELSE IF LinkOf(posts[i]) = <<>>
       THEN /\ pc' = "post"
            /\ i' = i + 1
            /\ status' = SetStatus("Failed")
            /\ trace' = Append(trace, Event("record", <<>>, "nolink"))
       ELSE /\ pc' = "page"
            /\ trace' = Append(trace, Event("record", LinkOf(posts[i]), "scan"))
            /\ UNCHANGED <<i, status>>
    /\ UNCHANGED <<tree, posts, run, page, images_to_download, todo, dirs, files,
                   total_downloaded, pageSite, imgSite>>

\* PageOk without the test of the status code
PageOk_Any(kind) == kind \in PageKinds

\* line 43
PageOk(kind) == kind = "ok"

\* lines 41-45 and 117-118: the page request
FetchPage ==
    /\ pc = "page"
    /\ \E a \in PageAnswers(LinkOf(posts[i])) :
        /\ pageSite' = pageSite \cup {a}
        /\ IF a.kind = "neterr"
           THEN /\ trace' = trace \o <<Event("page", a.url, a.kind),
                                       Event("print", a.url, "error")>>
                /\ status' = SetStatus("Failed")
                /\ pc' = "post"
                /\ i' = i + 1
                /\ UNCHANGED page
           ELSE IF ~PageOk(a.kind)
           THEN /\ trace' = trace \o <<Event("page", a.url, a.kind),
                                       Event("print", a.url, "failed")>>
                /\ status' = SetStatus("Failed")
                /\ pc' = "post"
                /\ i' = i + 1
                /\ UNCHANGED page
           ELSE /\ trace' = Append(trace, Event("page", a.url, a.kind))
                /\ status' = SetStatus("PageFetched")
                /\ pc' = "locate"
                /\ page' = a.markup
                /\ UNCHANGED i
    /\ UNCHANGED <<tree, posts, run, images_to_download, todo, dirs, files,
                   total_downloaded, imgSite>>

\* lines 47-78
LocateImages ==
    /\ pc = "locate"
    /\ images_to_download' = Locate(page)
    /\ status' = SetStatus("ImagesLocated")
    /\ pc' = "ensure"
    /\ UNCHANGED <<tree, posts, run, i, page, todo, dirs, files, total_downloaded,
                   trace, pageSite, imgSite>>

\* EnsureDir with the directory made before the set is tested
EnsureDir_Always ==
    /\ pc = "ensure"
    /\ dirs' = dirs \cup {SlugOf(posts[i])}
    /\ IF images_to_download = {}
       THEN /\ status' = SetStatus("Done")
            /\ pc' = "sleep"
            /\ UNCHANGED <<todo, trace>>
       ELSE /\ status' = SetStatus("Downloading")
            /\ pc' = "image"
            /\ todo' = images_to_download
            /\ trace' = Append(trace, Event("print", <<>>, "found"))
    /\ UNCHANGED <<tree, posts, run, i, page, images_to_download, files,
                   total_downloaded, pageSite, imgSite>>

\* lines 80-89
EnsureDir ==
    /\ pc = "ensure"
    /\ IF images_to_download = {}
       THEN /\ status' = SetStatus("Done")
            /\ pc' = "sleep"
            /\ UNCHANGED <<todo, dirs, trace>>
       ELSE /\ status' = SetStatus("Downloading")
            /\ pc' = "image"
            /\ todo' = images_to_download
            /\ dirs' = dirs \cup {SlugOf(posts[i])}
            /\ trace' = Append(trace, Event("print", <<>>, "found"))
    /\ UNCHANGED <<tree, posts, run, i, page, images_to_download, files,
                   total_downloaded, pageSite, imgSite>>

\* Count without the increment
Count_Keep(n) == n

\* line 111
Count(n) == n + 1

\* the file lines 108-110 leave at filepath
Written(dir, filename, url, kind) ==
    [dir |-> dir, name |-> filename, from |-> url, complete |-> (kind = "ok")]

\* AfterImage leaving the loop over images for the loop over posts
AfterImage_Restart(rest) == IF rest = {} THEN "sleep" ELSE "post"

\* after an iteration of the loop over images: the next image, or line 115
AfterImage(rest) == IF rest = {} THEN "sleep" ELSE "image"

\* lines 91-113 and 117-118: one iteration of the loop over the set, which
\* Python iterates in an arbitrary order
DownloadImage ==
    /\ pc = "image"
    /\ \E img \in todo :
        LET link == LinkOf(posts[i])
            post_media_dir == SlugOf(posts[i])
            rest == todo \ {img}
        IN
        IF UrlParseRaises(Resolve(link, img))
        THEN \* the ValueError of line 97 is caught at line 117
             /\ trace' = Append(trace, Event("print", Resolve(link, img), "error"))
             /\ status' = SetStatus("Failed")
             /\ pc' = "post"
             /\ i' = i + 1
             /\ todo' = {}
             /\ UNCHANGED <<files, total_downloaded, imgSite>>
        ELSE
        LET img_url == Resolve(link, img)
            filename == Filename(img_url)
        IN
        IF Exists(post_media_dir, filename)
        THEN /\ trace' = Append(trace, Event("outcome", img_url, "skipped-existing"))
             /\ todo' = rest
             /\ pc' = AfterImage(rest)
             /\ status' = IF rest = {} THEN SetStatus("Done") ELSE status
             /\ UNCHANGED <<i, files, total_downloaded, imgSite>>
        ELSE \E a \in ImgAnswers(img_url) :
             /\ imgSite' = imgSite \cup {a}
             /\ files' = IF a.kind \in {"ok", "ioerr"}
                         THEN files \cup {Written(post_media_dir, filename, img_url, a.kind)}
                         ELSE files
             /\ total_downloaded' = IF a.kind = "ok" THEN Count(total_downloaded)
                                    ELSE total_downloaded
             /\ trace' = trace \o <<Event("img", img_url, a.kind)>>
                    \o (IF a.kind \in {"ok", "ioerr"}
                        THEN <<Event("write", img_url, a.kind)>> ELSE <<>>)
                    \o (IF a.kind \in {"neterr", "ioerr"}
                        THEN <<Event("print", img_url, "error")>> ELSE <<>>)
                    \o <<Event("outcome", img_url,
                               IF a.kind = "ok" THEN "downloaded" ELSE "failed")>>
             /\ todo' = rest
             /\ pc' = AfterImage(rest)
             /\ status' = IF rest = {} THEN SetStatus("Done") ELSE status
             /\ UNCHANGED i
    /\ UNCHANGED <<tree, posts, run, page, images_to_download, dirs, pageSite>>

\* line 115
Sleep ==
    /\ pc = "sleep"
    /\ trace' = Append(trace, Event("sleep", <<>>, "delay"))
    /\ pc' = "post"
    /\ i' = i + 1
    /\ UNCHANGED <<tree, posts, run, page, images_to_download, todo, dirs, files,
                   total_downloaded, status, pageSite, imgSite>>

\* line 120
PrintSummary ==
    /\ pc = "post"
    /\ i > Len(posts)
    /\ trace' = Append(trace, [ev |-> "summary", run |-> run, post |-> i,
                               url |-> <<>>, what |-> "done",
                               n |-> total_downloaded])
    /\ pc' = "done"
    /\ UNCHANGED <<tree, posts, run, i, page, images_to_download, todo, dirs, files,
                   total_downloaded, status, pageSite, imgSite>>

\* A second run of the script on the same posts.json and output folder,
\* against the same site: lines 13-29 again.
Rerun ==
    /\ pc = "done"
    /\ run = 1
    /\ run' = 2
    /\ i' = 1
    /\ pc' = "post"
    /\ page' = {}
    /\ images_to_download' = {}
    /\ todo' = {}
    /\ total_downloaded' = 0
    /\ status' = [k \in 1..Len(posts) |-> "Pending"]
    /\ UNCHANGED <<tree, posts, dirs, files, trace, pageSite, imgSite>>

Next ==
    \/ StartPost
    \/ FetchPage
    \/ LocateImages
    \/ EnsureDir
    \/ DownloadImage
    \/ Sleep
    \/ PrintSummary

Spec == Init /\ [][Next]_vars

NextTwice == Next \/ Rerun

SpecTwice == Init /\ [][NextTwice]_vars

----------------------------------------------------------------------------
(* Properties *)

\* positions of the trace holding an event of kind e about post p
EventsOf(e, p) == {k \in 1..Len(trace) : trace[k].ev = e /\ trace[k].post = p}

\* the crawl has stopped: the summary is printed or an exception ended it
Stopped == pc \in {"done", "aborted"}

\* C1: no error raised while handling a record aborts the crawl: when the
\* crawl has stopped, every record of the list has been handled (is Done or
\* Failed) and the summary line is the last thing emitted.
C1_NoErrorAbortsCrawl ==
    Stopped =>
        /\ \A k \in 1..Len(posts) : status[k] \in {"Done", "Failed"}
        /\ Len(trace) > 0
        /\ trace[Len(trace)].ev = "summary"

\* C2: the second run on the same input, site and output folder issues no
\* image request, writes no file, reports zero new downloads, and every image
\* outcome of it is skipped-existing.
C2_SecondRunIdempotent ==
    /\ run = 2 => total_downloaded = 0
    /\ \A k \in 1..Len(trace) :
        trace[k].run = 2 =>
            /\ trace[k].ev \notin {"img", "write"}
            /\ trace[k].ev = "outcome" => trace[k].what = "skipped-existing"
            /\ trace[k].ev = "summary" => trace[k].n = 0

\* The part of C2 about files and the count alone: the second run writes no
\* file and counts no download.
C2_SecondRunWritesNothing ==
    /\ run = 2 => total_downloaded = 0
    /\ \A k \in 1..Len(trace) : trace[k].run = 2 => trace[k].ev # "write"

\* C3: when the file name derived from the image URL under consideration
\* already names a file of the record's directory, the iteration issues no
\* image request, leaves every file as it is and does not count a download.
C3_SkipExisting ==
    [][(pc = "image" /\ i' = i /\ todo' # todo) =>
        LET img == CHOOSE x \in todo : x \notin todo'
            name == Filename(Resolve(LinkOf(posts[i]), img))
        IN  (\E f \in files : f.dir = SlugOf(posts[i]) /\ f.name = name) =>
                /\ files' = files
                /\ imgSite' = imgSite
                /\ total_downloaded' = total_downloaded
                /\ \A k \in (Len(trace) + 1)..Len(trace') :
                       trace'[k].ev \notin {"img", "write"}]_vars

\* an image was skipped because a file of its name had been written before
C3_Witness ==
    \E k \in 1..Len(trace) :
        /\ trace[k].ev = "outcome"
        /\ trace[k].what = "skipped-existing"
        /\ \E f \in files :
            /\ f.dir = SlugOf(posts[trace[k].post])
            /\ f.name = Filename(trace[k].url)

\* C4: a record that is Downloading stays Downloading or becomes Done,
\* whatever happens to one of its images, and it becomes Done only after
\* every image of its set has been attempted.
C4_ImageFailureIsolated ==
    [][\A k \in 1..Len(posts) :
        status[k] = "Downloading" =>
            /\ status'[k] \in {"Downloading", "Done"}
            /\ status'[k] = "Done" => todo' = {}]_vars

\* C5: a page request that raises or is answered with a non-success status
\* makes the record Failed, no image request is issued and no file written
\* for the record, and the crawl goes on with the next record of the list.
C5_PageFailureIsolated ==
    \A k \in 1..Len(trace) :
        (trace[k].ev = "page" /\ trace[k].what # "ok") =>
            LET p == trace[k].post IN
            /\ status[p] = "Failed"
            /\ i > p
            /\ EventsOf("img", p) = {}
            /\ EventsOf("write", p) = {}
            /\ EventsOf("outcome", p) = {}
            /\ Len(trace) >= k + 2 =>
                /\ trace[k + 2].ev \in {"record", "summary"}
                /\ trace[k + 2].post = p + 1

\* a page fetch failed and the crawl started the next record
C5_Witness ==
    \E k \in 1..Len(trace) :
        /\ trace[k].ev = "page"
        /\ trace[k].what # "ok"
        /\ Len(trace) >= k + 2
        /\ trace[k + 2].ev = "record"

\* C6: the delay is applied exactly once after every record the loop has
\* left, however the record ended.
C6_DelayAfterEveryRecord ==
    \A p \in 1..Len(posts) : i > p => Cardinality(EventsOf("sleep", p)) = 1

\* scheme qualification, origin resolution and thumbnail rewrite
C7_Normalized(link, url) == FullUrl(Resolve(link, url))

\* C7: the image URLs iterated for one record are pairwise distinct after
\* full normalization.
C7_NoDuplicateAfterNormalization ==
    pc \in {"ensure", "image"} =>
        \A u, v \in images_to_download :
            u # v => C7_Normalized(LinkOf(posts[i]), u)
                        # C7_Normalized(LinkOf(posts[i]), v)

\* the resolved URLs of the current record's image set
C8_Resolved == {Resolve(LinkOf(posts[i]), u) : u \in images_to_download}

\* the current record found N > 0 images at pairwise distinct resolved URLs,
\* every request for them was answered with success and saved, and no file
\* was written to the record's directory before
C8_Case ==
    /\ pc = "sleep"
    /\ images_to_download # {}
    /\ Cardinality(C8_Resolved) = Cardinality(images_to_download)
    /\ \A k \in EventsOf("img", i) : trace[k].what = "ok"
    /\ \A k \in 1..Len(trace) :
        (trace[k].ev = "write" /\ trace[k].post < i) =>
            SlugOf(posts[trace[k].post]) # SlugOf(posts[i])

\* the record directory exists, N files were written into it and N was
\* added to the count
C8_AllWritten ==
    LET N == Cardinality(images_to_download)
        dir == SlugOf(posts[i])
    IN  /\ dir \in dirs
        /\ Cardinality(EventsOf("write", i)) = N
        /\ Cardinality({f \in files : f.dir = dir}) = N
        /\ Cardinality({k \in EventsOf("outcome", i) :
                            trace[k].what = "downloaded"}) = N
        /\ total_downloaded =
             Cardinality({k \in 1..Len(trace) : trace[k].ev = "outcome"
                                                /\ trace[k].what = "downloaded"})

\* C8 as stated: N candidates at pairwise distinct resolved URLs, all served
\* with success, into an empty record directory give N files and N counted.
C8_DistinctUrlsAllWritten == C8_Case => C8_AllWritten

\* C8 amended: the same when, in addition, the file names derived from the
\* resolved URLs are pairwise distinct and none is empty.
C8_DistinctNamesAllWritten ==
    (/\ C8_Case
     /\ Cardinality({Filename(r) : r \in C8_Resolved})
            = Cardinality(images_to_download)
     /\ <<>> \notin {Filename(r) : r \in C8_Resolved}) => C8_AllWritten

\* two images of distinct names were found, served and written
C8_Witness ==
    /\ C8_Case
    /\ Cardinality({Filename(r) : r \in C8_Resolved}) = 2
    /\ <<>> \notin {Filename(r) : r \in C8_Resolved}
    /\ Cardinality({f \in files : f.dir = SlugOf(posts[i])}) = 2
    /\ total_downloaded >= 2

\* C9, the counter in one step: it never decreases, and it grows by one,
\* in a step that answered an image request with success and wrote the
\* file completely.
C9_CountStep ==
    /\ total_downloaded' >= total_downloaded
    /\ total_downloaded' # total_downloaded =>
        /\ total_downloaded' = total_downloaded + 1
        /\ \E k \in (Len(trace) + 1)..Len(trace') :
            /\ trace'[k].ev = "img"
            /\ trace'[k].what = "ok"
            /\ \E f \in files' \ files : f.from = trace'[k].url /\ f.complete

\* C9, the emission: never before the last record, and exactly once when
\* the crawl has stopped.
C9_EmittedOnce ==
    LET summaries == {k \in 1..Len(trace) : trace[k].ev = "summary"} IN
    /\ Cardinality(summaries) <= 1
    /\ \A k \in summaries : trace[k].post = Len(posts) + 1
    /\ Stopped' => Cardinality({k \in 1..Len(trace') :
                                    trace'[k].ev = "summary"}) = 1

\* C9: the download counter never decreases, grows by one only after a
\* complete successful write, and is emitted exactly once, after the last
\* record.
C9_CounterMonotoneEmittedOnce == [][C9_CountStep /\ C9_EmittedOnce]_vars

\* C9 without the emission: the counter never decreases and grows by one
\* only after a complete successful write.
C9_CounterMonotone == [][C9_CountStep]_vars

\* C10: no partially written file is left under a name that the
\* skip-existing check accepts.
C10_NoPartialFileAccepted ==
    \A f \in files : ~f.complete => ~Exists(f.dir, f.name)

\* C11: no retry within a run: the page of a record is requested at most
\* once, and while a record is processed an image URL whose request failed
\* (error, timeout or non-success status) is not requested again.
C11_NoRetry ==
    \A r \in {1, 2} : \A p \in 1..Len(posts) :
        /\ Cardinality({k \in EventsOf("page", p) : trace[k].run = r}) <= 1
        /\ \A j, k \in EventsOf("img", p) :
            (j < k /\ trace[j].run = r /\ trace[k].run = r
                   /\ trace[j].url = trace[k].url)
                => trace[j].what \notin {"status", "neterr"}

\* positions of the trace holding an event of kind e
EventsOfKind(e) == {k \in 1..Len(trace) : trace[k].ev = e}

\* the records are started in the order of the list, one after the other,
\* and every request and file write of a record comes after the start of
\* that record and before the start of the next one
C12_InOrder ==
    /\ \A k \in EventsOfKind("record") :
            trace[k].post = Cardinality({j \in EventsOfKind("record") : j <= k})
    /\ \A k \in 1..(Len(trace) - 1) : trace[k].post <= trace[k + 1].post
    /\ \A k \in EventsOfKind("page") \cup EventsOfKind("img")
                 \cup EventsOfKind("write") :
            \E j \in EventsOfKind("record") :
                j < k /\ trace[j].post = trace[k].post

\* C12: strictly sequential processing: records are handled in the order of
\* the list, all requests and writes of a record happen before any of the
\* next record, and one step issues at most one request.
C12_Sequential ==
    [][/\ C12_InOrder
       /\ C12_InOrder'
       /\ Cardinality({k \in (Len(trace) + 1)..Len(trace') :
                          trace'[k].ev \in {"page", "img"}}) <= 1]_vars

\* an image of the first record was requested before the page of the second
C12_Witness ==
    \E j, k \in 1..Len(trace) :
        /\ j < k
        /\ trace[j].ev = "img" /\ trace[j].post = 1
        /\ trace[k].ev = "page" /\ trace[k].post = 2

\* C13: every image URL the crawl requests has had the thumbnail rewrite
\* applied, whichever strategy found it: no requested URL holds a /thumbs/
\* path segment.
C13_NoThumbRequested ==
    \A k \in EventsOfKind("img") : ~Contains(trace[k].url, ThumbsDir)

\* C14: an image URL that begins with "//" is requested as "https:" followed
\* by the URL unchanged, and is never resolved against the origin of the
\* page: the iteration that handles it ends with an event about exactly
\* that URL.
C14_ProtocolRelative ==
    [][(pc = "image" /\ pc' \in {"image", "sleep"} /\ todo' # todo) =>
        LET img == CHOOSE x \in todo : x \notin todo' IN
        StartsWith(img, <<"/", "/">>) =>
            /\ trace'[Len(trace')].ev = "outcome"
            /\ trace'[Len(trace')].url = <<"https:">> \o img
            /\ \A k \in (Len(trace) + 1)..Len(trace') :
                   trace'[k].url = <<"https:">> \o img]_vars

\* a protocol-relative URL was requested with the https scheme
C14_Witness ==
    \E k \in EventsOfKind("img") : trace[k].url = <<"https:">> \o UrlProto

\* the states a record may move to from state s
C15_Successors(s) ==
    CASE s = "Pending"       -> {"PageFetched", "Failed"}
      [] s = "PageFetched"   -> {"ImagesLocated", "Failed"}
      [] s = "ImagesLocated" -> {"Downloading", "Done", "Failed"}
      [] s = "Downloading"   -> {"Done", "Failed"}
      [] OTHER               -> {}

\* C15: the status of a record only advances along Pending, PageFetched,
\* ImagesLocated, Downloading, Done or moves to Failed; a record beyond
\* Pending that is not Failed has had its page fetched with success; Done and
\* Failed are absorbing, and no request or file write is made for a record
\* that is Done or Failed.
C15_StateMachine ==
    [][\A k \in 1..Len(posts) :
        /\ status'[k] # status[k] => status'[k] \in C15_Successors(status[k])
        /\ status'[k] \notin {"Pending", "Failed"} =>
            \E e \in 1..Len(trace') :
                /\ trace'[e].ev = "page"
                /\ trace'[e].post = k
                /\ trace'[e].what = "ok"
        /\ status[k] \in {"Done", "Failed"} =>
            \A e \in (Len(trace) + 1)..Len(trace') :
                trace'[e].post = k => trace'[e].ev \notin {"page", "img", "write"}]_vars

\* one record is Done after an image request, another one is Failed
C15_Witness ==
    \E k, l \in 1..Len(posts) :
        /\ status[k] = "Done"
        /\ EventsOf("img", k) # {}
        /\ status[l] = "Failed"

\* C16: a record whose fetched page yields no candidate becomes Done, not
\* Failed, and between the locating of its images and the start of the next
\* record nothing happens but the delay: no image request, no file, no
\* directory, no printed error, no change of the counter.
C16_EmptySetDone ==
    [][(images_to_download = {} /\ pc \in {"ensure", "sleep"}) =>
        /\ status'[i] = "Done"
        /\ pc' = IF pc = "ensure" THEN "sleep" ELSE "post"
        /\ UNCHANGED <<dirs, files, imgSite, total_downloaded>>
        /\ \A e \in (Len(trace) + 1)..Len(trace') : trace'[e].ev = "sleep"
        /\ \A e \in 1..Len(trace') :
               trace'[e].post = i =>
                   trace'[e].ev \in {"record", "page", "sleep"}
                   /\ trace'[e].what # "error"]_vars

\* a record without candidates is Done and the loop has left it
C16_Witness ==
    \E p \in 1..Len(posts) :
        /\ i > p
        /\ status[p] = "Done"
        /\ EventsOf("outcome", p) = {}
        /\ EventsOf("sleep", p) # {}

\* C17: a record without a link (absent or empty) goes from Pending to
\* Failed as soon as it is read: no page or image request is issued for it,
\* no directory or file is made for it, and the loop goes on to the next
\* record.
C17_NoLinkFails ==
    \A p \in 1..Len(posts) :
        (LinkOf(posts[p]) = <<>> /\ EventsOf("record", p) # {}) =>
            /\ status[p] = "Failed"
            /\ i > p
            /\ \A e \in 1..Len(trace) :
                   trace[e].post = p => trace[e].ev = "record"

\* the image set of record p: what lines 53-78 find in the page that the
\* site serves at the record's link
C18_Candidates(p) ==
    UNION {Locate(a.markup) : a \in {b \in pageSite : b.url = LinkOf(posts[p])}}

\* at most one page request per record and at most one image request per
\* entry of its image set
C18_BoundedRequests ==
    \A p \in 1..Len(posts) :
        /\ Cardinality(EventsOf("page", p)) <= 1
        /\ Cardinality(EventsOf("img", p)) <= Cardinality(C18_Candidates(p))

\* C18: termination: the crawl issues at most one page request per record
\* and at most one image request per entry of the record's image set, and
\* when it can take no further step it has emitted the final count.
C18_TerminatesWithCount ==
    /\ C18_BoundedRequests
    /\ ~ENABLED Next => EventsOfKind("summary") # {}

----------------------------------------------------------------------------
(* tree_categories (Report.py): the category hierarchy of the report *)

\* Longest list of categories.
MaxCats == 2

\* Depth of nested calls at which the interpreter raises RecursionError,
\* scaled to the lists above: MaxCats + 1 nested calls suffice for any
\* recursion that does not come back to a category it is already visiting.
MaxDepth == 4

Cat(k, n, q) == [keys |-> k, id |-> n, parent |-> q]

\* Category records: id and parent present or absent, parent pointing at
\* the root, at another category or at the category itself.
CatPool ==
    {Cat({"id", "parent"}, n, q) : n \in 1..2, q \in 0..2}
    \cup {Cat({"id"}, n, 0) : n \in 1..2}
    \cup {Cat({"parent"}, 0, q) : q \in 0..2}
    \cup {Cat({}, 0, 0)}

\* cat.get("id", 0)
IdOf(cat) == IF "id" \in cat.keys THEN cat.id ELSE 0

\* cat.get("parent", 0)
ParentOf(cat) == IF "parent" \in cat.keys THEN cat.parent ELSE 0

\* line 26: the positions of the categories whose parent is the argument,
\* in list order
RECURSIVE Children(_, _, _)
Children(cats, parent, from) ==
    IF from > Len(cats) THEN <<>>
    ELSE (IF ParentOf(cats[from]) = parent THEN <<from>> ELSE <<>>)
         \o Children(cats, parent, from + 1)

CrawlIdle ==
    /\ posts = <<>>
    /\ run = 1
    /\ i = 1
    /\ pc = "idle"
    /\ page = {}
    /\ images_to_download = {}
    /\ todo = {}
    /\ dirs = {}
    /\ files = {}
    /\ total_downloaded = 0
    /\ status = <<>>
    /\ trace = <<>>
    /\ pageSite = {}
    /\ imgSite = {}

crawlVars == <<posts, run, i, pc, page, images_to_download, todo, dirs, files,
               total_downloaded, status, trace, pageSite, imgSite>>

\* main, line 72: categories.json is loaded
InitTree ==
    /\ CrawlIdle
    /\ tree \in {[cats |-> c, pc |-> "main", arg |-> 0, stack |-> <<>>, out |-> <<>>] :
                    c \in SeqsUpTo(CatPool, MaxCats)}

\* main, lines 124-127: the hierarchy is built when there are categories
TreeMain ==
    /\ tree.pc = "main"
    /\ tree' = [tree EXCEPT !.pc = IF tree.cats = <<>> THEN "done" ELSE "call"]
    /\ UNCHANGED crawlVars

\* lines 23-26: a call of tree_categories with parent tree.arg
TreeCall ==
    /\ tree.pc = "call"
    /\ IF Len(tree.stack) >= MaxDepth
       THEN tree' = [tree EXCEPT !.pc = "RecursionError"]
       ELSE tree' = [tree EXCEPT
                !.pc = "loop",
                !.stack = Append(tree.stack,
                            [parent |-> tree.arg,
                             children |-> Children(tree.cats, tree.arg, 1)])]
    /\ UNCHANGED crawlVars

\* lines 27-29: the next child is written and its own children are asked for
TreeEmit ==
    /\ tree.pc = "loop"
    /\ tree.stack[Len(tree.stack)].children # <<>>
    /\ LET top == Len(tree.stack)
           cat == Head(tree.stack[top].children)
       IN  tree' = [tree EXCEPT
                !.pc = "call",
                !.arg = IdOf(tree.cats[cat]),
                !.out = Append(tree.out, [cat |-> cat, depth |-> top - 1]),
                !.stack[top].children = Tail(tree.stack[top].children)]
    /\ UNCHANGED crawlVars

\* line 30: the loop over the children is over
TreeReturn ==
    /\ tree.pc = "loop"
    /\ tree.stack[Len(tree.stack)].children = <<>>
    /\ tree' = [tree EXCEPT
            !.pc = IF Len(tree.stack) = 1 THEN "done" ELSE "loop",
            !.stack = SubSeq(tree.stack, 1, Len(tree.stack) - 1)]
    /\ UNCHANGED crawlVars

NextTree ==
    \/ TreeMain
    \/ TreeCall
    \/ TreeEmit
    \/ TreeReturn

SpecTree == InitTree /\ [][NextTree]_vars

\* C19: tree_categories terminates for every finite list of categories,
\* whatever their id and parent values: the recursion never reaches the
\* depth of a RecursionError, and no category is written twice.
C19_TreeTerminates ==
    /\ tree.pc # "RecursionError"
    /\ \A j, k \in 1..Len(tree.out) :
           j # k => tree.out[j].cat # tree.out[k].cat

====
